---- MODULE Spec2Model ----
(***************************************************************************)
(* A model of the train-video analysis pipeline:                           *)
(*   utils/video_processor.py   VideoProcessor  (coach segmentation)       *)
(*   utils/frame_extractor.py   FrameExtractor  (keyframe selection)       *)
(*   utils/component_detector.py ComponentDetector (per-frame detectors)   *)
(*   main.py                    TrainVideoProcessor (orchestration)        *)
(*                                                                         *)
(* Each component has its own specification (SpecSeg, SpecKey, SpecDet,    *)
(* SpecBatch) over the variables that hold its state; the variables of the *)
(* other components stay at their idle value.                              *)
(***************************************************************************)
EXTENDS Integers, Sequences, FiniteSets

VARIABLES
    video,   \* the VideoStream metadata a cv2.VideoCapture reports
    sp,      \* locals of split_video_into_coaches / _detect_coach_boundaries
    clip,    \* the coach clip file handed to extract_key_frames
    kf,      \* locals of extract_key_frames
    dframes, \* the keyframe list handed to detect_components
    det,     \* locals of detect_components
    batch,   \* the video files of the input directory
    run      \* locals of process_all_videos / process_single_video

segVars == <<video, sp>>

keyVars == <<clip, kf>>

detVars == <<dframes, det>>

batchVars == <<batch, run>>

vars == <<segVars, keyVars, detVars, batchVars>>

----------------------------------------------------------------------------
(* Arithmetic helpers *)

Min(a, b) == IF a < b THEN a ELSE b

Max(a, b) == IF a > b THEN a ELSE b

\* Python's round() of the non-negative rational n/d: half to even.
RoundDiv(n, d) ==
    LET q == n \div d
        r == n % d
    IN  IF 2 * r < d THEN q
        ELSE IF 2 * r > d THEN q + 1
        ELSE IF q % 2 = 0 THEN q ELSE q + 1

----------------------------------------------------------------------------
(* Bounds of the model *)

\* largest CAP_PROP_FRAME_COUNT of a source video
MaxFrames == 300

\* frame rates are the rationals rateNum / RateDen
RateDen == 2

\* the slow frame rates 1/RateDen .. MaxRateNum/RateDen
MaxRateNum == 4

\* the frame rates of the model: the slow ones, and 30 fps
FrameRates == (1..MaxRateNum) \cup {30 * RateDen}

----------------------------------------------------------------------------
(* VideoProcessor: coach segmentation (utils/video_processor.py) *)

MinCoaches == 6

MaxCoaches == 12

SecondsPerCoach == 15

\* fps = int(cap.get(cv2.CAP_PROP_FPS)): truncation of the reported rate
IntFps(rateNum) == rateNum \div RateDen

\* int(duration / 15) with duration = total_frames / fps: two true
\* divisions truncated once at the end. For frame counts below 2^52 the
\* floating-point quotient truncates to the same integer as the exact one.
CoachesByDuration(total_frames, fps) == total_frames \div (fps * SecondsPerCoach)

\* round(duration / 15) in place of int(duration / 15)
NumCoachesRounded(total_frames, fps) ==
    Min(MaxCoaches, Max(MinCoaches, RoundDiv(total_frames, fps * SecondsPerCoach)))

\* num_coaches = min(12, max(6, int(duration / 15)))
NumCoaches(total_frames, fps) ==
    Min(MaxCoaches, Max(MinCoaches, CoachesByDuration(total_frames, fps)))

\* the segment length is rounded up
SegmentLengthCeil(total_frames, num_coaches) ==
    (total_frames + num_coaches - 1) \div num_coaches

\* segment_length = total_frames // num_coaches
SegmentLength(total_frames, num_coaches) == total_frames \div num_coaches

\* a start one frame past the previous segment's end
StartFrameGap(i, segment_length) == i * segment_length + 1

\* start_frame = i * segment_length
StartFrame(i, segment_length) == i * segment_length

\* end_frame = min((i + 1) * segment_length, total_frames)
EndFrame(i, segment_length, total_frames) ==
    Min((i + 1) * segment_length, total_frames)

\* every segment tagged wagon
CoachTypeAllWagon(i) == "wagon"

\* coach_type = 'engine' if i == 0 else 'wagon'
CoachType(i) == IF i = 0 THEN "engine" ELSE "wagon"

\* the tuple appended for loop index i (0-based)
Boundary(i, segment_length, total_frames) ==
    [start_frame |-> StartFrame(i, segment_length),
     end_frame   |-> EndFrame(i, segment_length, total_frames),
     coach_type  |-> CoachType(i)]

\* the list _detect_coach_boundaries returns
DetectCoachBoundaries(total_frames, fps) ==
    LET num_coaches    == NumCoaches(total_frames, fps)
        segment_length == SegmentLength(total_frames, num_coaches)
    IN  [k \in 1..num_coaches |-> Boundary(k - 1, segment_length, total_frames)]

SpIdle ==
    [pc |-> "idle", fps |-> 0, num_coaches |-> 0, segment_length |-> 0,
     i |-> 0, boundaries |-> <<>>, have_boundaries |-> FALSE,
     coach_clips |-> <<>>, handles |-> 0, error |-> "none"]

VideoIdle == [total_frames |-> 0, rateNum |-> 0, openable |-> FALSE]

SegIdle == video = VideoIdle /\ sp = SpIdle

\* The source videos of the model.
Videos ==
    [total_frames : 0..MaxFrames, rateNum : FrameRates, openable : BOOLEAN]

----------------------------------------------------------------------------
(* FrameExtractor: keyframe selection (utils/frame_extractor.py) *)

\* longest coach clip (readable frames) of the model
MaxClipLen == 5

\* gray levels 1..MaxImg of a frame's content
MaxImg == 2

\* largest target_frames of the model
MaxTarget == 2

\* SSIM lost per gray level of difference, in percent
SimDrop == 15

\* similarity scores and thresholds are percentages: 90 is 0.9
DefaultThreshold == 90

\* target_frames of the call at main.py line 96 (the default)
DefaultTargetFrames == 8

\* the target_frames arguments of the model
TargetFrames == (1..MaxTarget) \cup {DefaultTargetFrames}

\* the similarity_threshold arguments of the model: never below, the
\* default, and above every score
Thresholds == {0, DefaultThreshold, 101}

\* a decoded frame: its luminance content, the contours cv2.findContours
\* finds in its edge map, and whether it is a 3-channel BGR image
Frame(img, contours) == [img |-> img, contours |-> contours, bgr |-> TRUE]

\* the frames a clip of the keyframe model is made of
ClipFrames == {Frame(g, <<>>) : g \in 1..MaxImg}

SeqsUpTo(S, n) == UNION {[1..k -> S] : k \in 0..n}

\* The coach clips: a file that cannot be opened yields no frame; a header
\* may state twice the frames that decode (a truncated file); ssim_fails
\* marks frames on which structural_similarity raises (smaller than its
\* window).
Clips ==
    {c \in [openable : BOOLEAN, frames : SeqsUpTo(ClipFrames, MaxClipLen),
            header_doubled : BOOLEAN, ssim_fails : BOOLEAN] :
        ~c.openable => (c.frames = <<>> /\ ~c.header_doubled /\ ~c.ssim_fails)}

\* lengths of the long coach clips: with target_frames = 8 the first three
\* give sample_interval = 3 and the last gives 4
ScenarioLengths == {72, 80, 95, 96}

\* frame positions (from 0) at which the content of a long clip may change
ScenarioChanges == {30, 45, 60}

\* the other gray level of a two-level clip
Flip(g) == 3 - g

\* a clip of n frames that starts at gray level first and switches to the
\* other level at each position of changes
StepClip(n, changes, first) ==
    [openable |-> TRUE,
     frames |-> [k \in 1..n |->
                    Frame(IF Cardinality({p \in changes : p <= k - 1}) % 2 = 0
                          THEN first ELSE Flip(first),
                          <<>>)],
     header_doubled |-> FALSE, ssim_fails |-> FALSE]

\* The long coach clips: piecewise constant content.
ScenarioClips ==
    {StepClip(n, changes, first) :
        n \in ScenarioLengths, changes \in SUBSET ScenarioChanges,
        first \in {1, 2}}

\* int(cap.get(cv2.CAP_PROP_FRAME_COUNT))
HeaderFrameCount(c) ==
    IF c.header_doubled THEN 2 * Len(c.frames) ELSE Len(c.frames)

\* cv2.cvtColor(frame, cv2.COLOR_BGR2GRAY)
Gray(frame) == frame.img

Abs(x) == IF x < 0 THEN 0 - x ELSE x

\* skimage structural_similarity of two gray images, in percent: 100 for
\* identical images, falling (below 0 too) with their difference
Ssim(gray1, gray2) == 100 - SimDrop * Abs(gray1 - gray2)

\* a comparison that raises is scored as identical
CalculateSimilarityOneOnError(c, gray1, gray2) ==
    IF c.ssim_fails THEN 100 ELSE Max(0, Ssim(gray1, gray2))

\* _calculate_similarity, lines 107-117: max(0, ssim), and 0.0 when the
\* comparison raises
CalculateSimilarity(c, gray1, gray2) ==
    IF c.ssim_fails THEN 0 ELSE Max(0, Ssim(gray1, gray2))

\* one sample per target_frames-th part of the clip
SampleIntervalPerTarget(total_frames, target_frames) ==
    Max(1, total_frames \div target_frames)

\* sample_interval = max(1, total_frames // (target_frames * 3))
SampleInterval(total_frames, target_frames) ==
    Max(1, total_frames \div (target_frames * 3))

\* the read stops one frame before the end of the clip
ReadOkEarlyEnd(c, pos) == c.openable /\ pos < Len(c.frames)

\* ret of the cap.read() that delivers frame number pos (1-based)
ReadOk(c, pos) == c.openable /\ pos <= Len(c.frames)

\* sampling starts one frame late
IsSampledFromOne(frame_count, sample_interval) ==
    frame_count % sample_interval = 1 % sample_interval

\* if frame_count % sample_interval == 0
IsSampled(frame_count, sample_interval) == frame_count % sample_interval = 0

\* if len(frames) >= target_frames
EnoughFrames(frames, target_frames) == Len(frames) >= target_frames

\* a score equal to the threshold counts as a change
SignificantChangeOrEqual(similarity, similarity_threshold) ==
    similarity <= similarity_threshold

\* if similarity < similarity_threshold (line 70)
SignificantChange(similarity, similarity_threshold) ==
    similarity < similarity_threshold

\* the first reference is kept for the whole clip
NewReferenceKeepsFirst(reference_frame, gray) == reference_frame

\* reference_frame = gray.copy() at line 73, after an append
NewReference(reference_frame, gray) == <<gray>>

KfIdleState ==
    [pc |-> "idle", similarity_threshold |-> 0, target_frames |-> 0,
     frames |-> <<>>, added_at |-> <<>>, frame_count |-> 0,
     reference_frame |-> <<>>, sample_interval |-> 0, handles |-> 0,
     error |-> "none"]

ClipIdle ==
    [openable |-> FALSE, frames |-> <<>>, header_doubled |-> FALSE,
     ssim_fails |-> FALSE]

KeyIdle == clip = ClipIdle /\ kf = KfIdleState

\* extract_key_frames is called with its arguments
KfCalled(similarity_threshold, target_frames) ==
    [KfIdleState EXCEPT !.pc = "open",
                        !.similarity_threshold = similarity_threshold,
                        !.target_frames = target_frames]

\* lines 34-50: open the capture, raise if it is not opened, initialise the
\* locals. reference_frame is <<>> for None, <<gray>> otherwise.
KfOpen(st, c) ==
    IF ~c.openable
    THEN [st EXCEPT !.pc = "raised", !.error = "ValueError"]
    ELSE [st EXCEPT !.pc = "loop", !.handles = 1,
                    !.sample_interval =
                        SampleInterval(HeaderFrameCount(c), st.target_frames)]

\* one iteration of `while True`, lines 53-80. added_at is the frame_count
\* logged at lines 65 and 74.
KfIter(st, c) ==
    IF ~ReadOk(c, st.frame_count + 1)
    THEN [st EXCEPT !.pc = "release"]
    ELSE LET frame == c.frames[st.frame_count + 1]
             gray  == Gray(frame)
         IN  IF ~IsSampled(st.frame_count, st.sample_interval)
             THEN [st EXCEPT !.frame_count = @ + 1]
             ELSE IF st.reference_frame = <<>>
             THEN [st EXCEPT !.reference_frame = <<gray>>,
                             !.frames = Append(@, frame),
                             !.added_at = Append(@, st.frame_count),
                             !.frame_count = @ + 1]
             ELSE IF SignificantChange(
                         CalculateSimilarity(c, st.reference_frame[1], gray),
                         st.similarity_threshold)
             THEN IF EnoughFrames(Append(st.frames, frame), st.target_frames)
                  THEN [st EXCEPT !.frames = Append(@, frame),
                                  !.added_at = Append(@, st.frame_count),
                                  !.reference_frame = NewReference(@, gray),
                                  !.pc = "release"]
                  ELSE [st EXCEPT !.frames = Append(@, frame),
                                  !.added_at = Append(@, st.frame_count),
                                  !.reference_frame = NewReference(@, gray),
                                  !.frame_count = @ + 1]
             ELSE [st EXCEPT !.frame_count = @ + 1]

\* the first frame of the file is appended whether or not frames is empty
KfFinishAlwaysFallback(st, c) ==
    IF ReadOk(c, 1)
    THEN [st EXCEPT !.pc = "done", !.handles = @ - 1,
                    !.frames = Append(@, c.frames[1])]
    ELSE [st EXCEPT !.pc = "done", !.handles = @ - 1]

\* lines 82-94: release the capture; with no frame at all, open the file
\* again and take its first frame if it reads; return frames
KfFinish(st, c) ==
    IF Len(st.frames) = 0 /\ ReadOk(c, 1)
    THEN [st EXCEPT !.pc = "done", !.handles = @ - 1,
                    !.frames = Append(@, c.frames[1])]
    ELSE [st EXCEPT !.pc = "done", !.handles = @ - 1]

\* extract_key_frames run to its end from state st
RECURSIVE KfRun(_, _)
KfRun(st, c) ==
    CASE st.pc = "open"    -> KfRun(KfOpen(st, c), c)
      [] st.pc = "loop"    -> KfRun(KfIter(st, c), c)
      [] st.pc = "release" -> KfRun(KfFinish(st, c), c)
      [] OTHER             -> st

\* extract_key_frames(video_path, similarity_threshold, target_frames):
\* the final state, pc = "done" with the returned frames or pc = "raised"
ExtractKeyFrames(c, similarity_threshold, target_frames) ==
    KfRun(KfCalled(similarity_threshold, target_frames), c)

----------------------------------------------------------------------------
(* ComponentDetector: per-frame detectors (utils/component_detector.py) *)

\* most contours of one frame
MaxContours == 2

\* most keyframes handed to detect_components
MaxKeyframes == 2

DoorMinArea == 1000

DoorMaxArea == 10000

DoorVarianceThreshold == 1000

EngineMinArea == 15000

WagonMinArea == 5000

WagonMaxArea == 15000

\* A contour: its bounding rectangle (x, y, w, h), the area it encloses
\* (cv2.contourArea) and the intensity variance of the frame inside the
\* rectangle.
Contour(x, y, w, h, area, variance) ==
    [x |-> x, y |-> y, w |-> w, h |-> h, area |-> area, variance |-> variance]

\* The contours of the model: a textured door-sized region that is also in
\* the wagon band, a plain door at the variance threshold, an engine-sized
\* region, a wide wagon-sized region, a thin outline whose rectangle
\* (40 x 50) is door-sized while the area it encloses is not, and a
\* door-sized region of uniform intensity.
ContourSamples ==
    <<Contour(10, 20, 60, 100, 6000, 1500),
      Contour(100, 20, 60, 100, 4000, 1000),
      Contour(0, 0, 200, 100, 18000, 300),
      Contour(200, 0, 400, 100, 12000, 300),
      Contour(300, 50, 40, 50, 900, 1200),
      Contour(400, 20, 50, 80, 3000, 0)>>

\* the contour lists of a frame, in the order findContours returns them
ContourLists ==
    {[k \in 1..Len(ix) |-> ContourSamples[ix[k]]] :
        ix \in {q \in SeqsUpTo(1..Len(ContourSamples), MaxContours) :
                   \A k \in 1..(Len(q) - 1) : q[k] <= q[k + 1]}}

\* a frame that is not a 3-channel image: cv2.cvtColor(.., COLOR_BGR2GRAY)
\* raises on it
MalformedFrame == [img |-> 1, contours |-> <<>>, bgr |-> FALSE]

\* the keyframes of the detector model
DetectorFrames == {Frame(1, cs) : cs \in ContourLists} \cup {MalformedFrame}

BBox(c) == <<c.x, c.y, c.w, c.h>>

\* the size test is made on the area of the bounding rectangle
IsDoorByBoundingBox(c) ==
    /\ DoorMinArea < c.w * c.h
    /\ c.w * c.h < DoorMaxArea
    /\ 10 * c.w > 3 * c.h
    /\ c.w < 3 * c.h

\* 1000 < area < 10000 and w > h * 0.3 and w < h * 3, with
\* area = cv2.contourArea(contour)
IsDoor(c) ==
    /\ DoorMinArea < c.area
    /\ c.area < DoorMaxArea
    /\ 10 * c.w > 3 * c.h
    /\ c.w < 3 * c.h

\* area > 15000 and w > h * 0.5
IsEngine(c) == c.area > EngineMinArea /\ 2 * c.w > c.h

\* 5000 < area < 15000 and w > h * 0.3
IsWagon(c) ==
    /\ WagonMinArea < c.area
    /\ c.area < WagonMaxArea
    /\ 10 * c.w > 3 * c.h

\* a crop with no pixel: door_roi.size == 0
EmptyCrop == Contour(0, 0, 0, 50, 0, 2000)

\* a variance equal to the threshold classifies open
ClassifyDoorStatusAtThreshold(c) ==
    IF c.w * c.h = 0 THEN "closed"
    ELSE IF c.variance >= DoorVarianceThreshold THEN "open" ELSE "closed"

\* _classify_door_status on the crop frame[y:y+h, x:x+w]
ClassifyDoorStatus(c) ==
    IF c.w * c.h = 0 THEN "closed"
    ELSE IF c.variance > DoorVarianceThreshold THEN "open" ELSE "closed"

\* only open doors are counted
AddDoorOpenOnly(doors, c) ==
    LET door_status == ClassifyDoorStatus(c)
        door_info == [bbox |-> BBox(c), status |-> door_status, area |-> c.area]
    IN  [doors EXCEPT !.door_boxes = Append(@, door_info),
                      !.open = IF door_status = "open" THEN @ + 1 ELSE @]

\* lines 124-136: record one door candidate
AddDoor(doors, c) ==
    LET door_status == ClassifyDoorStatus(c)
        door_info == [bbox |-> BBox(c), status |-> door_status, area |-> c.area]
    IN  [doors EXCEPT !.door_boxes = Append(@, door_info),
                      !.open = IF door_status = "open" THEN @ + 1 ELSE @,
                      !.closed = IF door_status = "open" THEN @ ELSE @ + 1]

\* the loop of detect_doors over contours[k..], lines 117-136
RECURSIVE DoorLoop(_, _, _)
DoorLoop(doors, contours, k) ==
    IF k > Len(contours) THEN doors
    ELSE DoorLoop(IF IsDoor(contours[k]) THEN AddDoor(doors, contours[k])
                  ELSE doors,
                  contours, k + 1)

\* DoorDetector.detect_doors
DetectDoors(frame) ==
    DoorLoop([open |-> 0, closed |-> 0, door_boxes |-> <<>>], frame.contours, 1)

\* the loop of detect_engines over contours[k..], lines 187-193
RECURSIVE EngineLoop(_, _)
EngineLoop(contours, k) ==
    IF k > Len(contours) THEN <<>>
    ELSE (IF IsEngine(contours[k]) THEN <<BBox(contours[k])>> ELSE <<>>)
             \o EngineLoop(contours, k + 1)

\* EngineDetector.detect_engines
DetectEngines(frame) == EngineLoop(frame.contours, 1)

\* the loop of detect_wagons over contours[k..], lines 217-223
RECURSIVE WagonLoop(_, _)
WagonLoop(contours, k) ==
    IF k > Len(contours) THEN <<>>
    ELSE (IF IsWagon(contours[k]) THEN <<BBox(contours[k])>> ELSE <<>>)
             \o WagonLoop(contours, k + 1)

\* WagonDetector.detect_wagons
DetectWagons(frame) == WagonLoop(frame.contours, 1)

\* _annotate_frame: a copy of the frame with one rectangle and label drawn
\* per door, engine and wagon
AnnotateFrame(frame, doors, engines, wagons) ==
    [frame |-> frame,
     drawn |-> [k \in 1..Len(doors.door_boxes) |->
                    <<"Door: " \o doors.door_boxes[k].status,
                      doors.door_boxes[k].bbox>>]
               \o [k \in 1..Len(engines) |-> <<"Engine", engines[k]>>]
               \o [k \in 1..Len(wagons) |-> <<"Wagon", wagons[k]>>]]

\* detections already in the list are not added again
ExtendUnique(list, new) ==
    list \o SelectSeq(new, LAMBDA b : \A k \in 1..Len(list) : list[k] # b)

\* list.extend(new)
Extend(list, new) == list \o new

\* frame_index counts from 1
FrameAnnotationOneBased(i, frame, doors, engines, wagons) ==
    [frame_index |-> i + 1,
     annotated_frame |-> AnnotateFrame(frame, doors, engines, wagons),
     doors |-> doors,
     engines |-> engines,
     wagons |-> wagons]

\* lines 54-61: the annotation of the frame at index i of enumerate(frames)
FrameAnnotation(i, frame, doors, engines, wagons) ==
    [frame_index |-> i,
     annotated_frame |-> AnnotateFrame(frame, doors, engines, wagons),
     doors |-> doors,
     engines |-> engines,
     wagons |-> wagons]

\* lines 31-37
NewComponents ==
    [doors_open |-> 0, doors_closed |-> 0, engines |-> <<>>,
     wagons |-> <<>>, annotations |-> <<>>]

\* the dict of the previous call is taken up again
ReusedAccumulator(previous) == previous

\* components = {...} at lines 31-37: a new dict for this call, whatever the
\* previous call of the instance left
FreshAccumulator(previous) == NewComponents

\* calls counts the earlier calls made on the same ComponentDetector
DetIdleState ==
    [pc |-> "idle", i |-> 0, components |-> NewComponents, calls |-> 0]

\* detect_components is called: the accumulator is built, the loop starts
DetCalled ==
    [pc |-> "loop", i |-> 0, components |-> NewComponents, calls |-> 0]

\* most further calls on the same ComponentDetector
MaxCalls == 1

\* the keyframe lists of the further calls: no keyframe, a keyframe without
\* contours, a keyframe with an open door and an engine
NextCoachFrames ==
    {<<>>,
     <<Frame(1, <<>>)>>,
     <<Frame(1, <<ContourSamples[1], ContourSamples[3]>>)>>}

\* one iteration of `for i, frame in enumerate(frames)`, lines 39-61, or
\* the return of line 63. An exception of a detector leaves the function:
\* the local accumulator is lost.
DetIter(st, frames) ==
    IF st.i >= Len(frames)
    THEN [st EXCEPT !.pc = "done"]
    ELSE LET frame == frames[st.i + 1]
         IN  IF ~frame.bgr
             THEN [st EXCEPT !.pc = "raised", !.components = NewComponents]
             ELSE LET doors   == DetectDoors(frame)
                      engines == DetectEngines(frame)
                      wagons  == DetectWagons(frame)
                  IN  [st EXCEPT
                         !.i = @ + 1,
                         !.components =
                            [doors_open |-> @.doors_open + doors.open,
                             doors_closed |-> @.doors_closed + doors.closed,
                             engines |-> Extend(@.engines, engines),
                             wagons |-> Extend(@.wagons, wagons),
                             annotations |-> Append(@.annotations,
                                FrameAnnotation(st.i, frame, doors,
                                                engines, wagons))]]

RECURSIVE DetRun(_, _)
DetRun(st, frames) ==
    IF st.pc = "loop" THEN DetRun(DetIter(st, frames), frames) ELSE st

\* detect_components(video_path, frames): the final state, pc = "done" with
\* the returned components or pc = "raised"
DetectComponents(frames) == DetRun(DetCalled, frames)

----------------------------------------------------------------------------
(* TrainVideoProcessor: orchestration (main.py) *)

\* most things that go wrong or deviate from the standard coach in one run
MaxFaults == 2

\* The files the three globs of process_all_videos can find: two mp4 files
\* and an avi file that shares its stem with one of them.
VideoFiles ==
    {[stem |-> "12309", ext |-> "mp4"],
     [stem |-> "12310", ext |-> "mp4"],
     [stem |-> "12309", ext |-> "avi"]}

\* position of a suffix in glob("*.mp4") + glob("*.avi") + glob("*.mov")
ExtRank(ext) == CASE ext = "mp4" -> 1 [] ext = "avi" -> 2 [] OTHER -> 3

\* video_files for the contents of an input directory: no file twice, the
\* suffixes in the order of the three globs
Batches ==
    {b \in SeqsUpTo(VideoFiles, Cardinality(VideoFiles)) :
        /\ \A j, k \in 1..Len(b) : j # k => b[j] # b[k]
        /\ \A j \in 1..(Len(b) - 1) : ExtRank(b[j].ext) <= ExtRank(b[j + 1].ext)}

\* the metadata of the source videos of a batch: the 300-frame 30 fps
\* stream, a file that does not open, a stream of less than 1 fps
StdVideo == [total_frames |-> 300, rateNum |-> 30 * RateDen, openable |-> TRUE]

UnopenableVideo == [total_frames |-> 0, rateNum |-> 0, openable |-> FALSE]

SlowVideo == [total_frames |-> 300, rateNum |-> 1, openable |-> TRUE]

\* the coach clips of a batch: two distinct frames with a door each; one
\* frame without contours; a clip that opens but yields no frame; a clip
\* that does not open
StdClip ==
    [openable |-> TRUE,
     frames |-> <<Frame(1, <<ContourSamples[1]>>), Frame(2, <<ContourSamples[2]>>)>>,
     header_doubled |-> FALSE, ssim_fails |-> FALSE]

PlainClip ==
    [openable |-> TRUE, frames |-> <<Frame(1, <<>>)>>,
     header_doubled |-> FALSE, ssim_fails |-> FALSE]

EmptyClip ==
    [openable |-> TRUE, frames |-> <<>>,
     header_doubled |-> FALSE, ssim_fails |-> FALSE]

UnopenableClip ==
    [openable |-> FALSE, frames |-> <<>>,
     header_doubled |-> FALSE, ssim_fails |-> FALSE]

\* What the environment does to one coach: "std", "plain", "empty" and
\* "unopenable" name the clip found at coach_path; "missing": the clip is
\* gone when the coach is processed; "save_fails": save_coach_data raises
\* OSError.
CoachKinds == {"std", "plain", "empty", "unopenable", "missing", "save_fails"}

ClipOfKind(kind) ==
    CASE kind = "plain"      -> PlainClip
      [] kind = "empty"      -> EmptyClip
      [] kind = "unopenable" -> UnopenableClip
      [] OTHER               -> StdClip

\* split_video_into_coaches(video_path) for a source with metadata meta;
\* fail_at is the coach whose _extract_coach_clip raises (0: none)
SplitVideoIntoCoaches(meta, fail_at) ==
    IF ~meta.openable \/ IntFps(meta.rateNum) = 0
    THEN [raised |-> TRUE, coach_clips |-> <<>>]
    ELSE LET bs == DetectCoachBoundaries(meta.total_frames, IntFps(meta.rateNum))
         IN  IF fail_at \in 1..Len(bs)
             THEN [raised |-> TRUE, coach_clips |-> <<>>]
             ELSE [raised |-> FALSE,
                   coach_clips |-> [k \in 1..Len(bs) |->
                       [index |-> k, type |-> bs[k].coach_type,
                        start_frame |-> bs[k].start_frame,
                        end_frame |-> bs[k].end_frame]]]

\* frame_count holds the number of detections instead of len(frames)
CoachDataCountsDetections(i, coach_info, frames, components) ==
    [coach_number |-> i,
     coach_type |-> coach_info.type,
     frame_count |-> components.doors_open + components.doors_closed
                         + Len(components.engines) + Len(components.wagons),
     components |-> components,
     doors_open |-> components.doors_open,
     doors_closed |-> components.doors_closed]

\* lines 109-116
CoachData(i, coach_info, frames, components) ==
    [coach_number |-> i,
     coach_type |-> coach_info.type,
     frame_count |-> Len(frames),
     components |-> components,
     doors_open |-> components.doors_open,
     doors_closed |-> components.doors_closed]

\* the coaches are numbered by their position among the stored records
CoachNumberByPosition(i, coaches) == Len(coaches) + 1

\* 'coach_number': i, with the i of enumerate(coach_clips.items(), 1) at
\* line 82: the position of the clip in coach_clips
CoachNumber(i, coaches) == i

\* an empty dict
EmptyDict == [s \in {} |-> 0]

\* d[key] = value
DictSet(d, key, value) ==
    [s \in DOMAIN d \cup {key} |-> IF s = key THEN value ELSE d[s]]

\* the loop of process_all_videos is left at the first error
VideoAfterErrorBreak(v, n) == n + 1

\* `continue` at line 59: the loop goes on with the next video
VideoAfterError(v, n) == v + 1

RunIdle ==
    [pc |-> "idle", v |-> 0, i |-> 0, all_results |-> EmptyDict,
     results |-> [train_number |-> "", total_coaches |-> 0, coaches |-> <<>>],
     coach_clips |-> <<>>, log |-> <<>>, saved |-> {}, report |-> <<>>,
     faults |-> 0]

\* the video loop moves to video number w of n, or to the report
ToVideo(st, w, n) ==
    [st EXCEPT !.pc = IF w > n THEN "report" ELSE "video", !.v = w, !.i = 0,
               !.coach_clips = <<>>,
               !.results = RunIdle.results]

\* lines 57-59: the exception of process_single_video is logged and the
\* video loop continues
VideoRaised(st, n) ==
    ToVideo([st EXCEPT !.log = Append(@, <<"error", st.v>>)],
            VideoAfterError(st.v, n), n)

DetIdle == dframes = <<>> /\ det = DetIdleState

BatchIdle == batch = <<>> /\ run = RunIdle

----------------------------------------------------------------------------
(* Specification of split_video_into_coaches *)

InitSeg ==
    /\ video \in Videos
    /\ sp = [SpIdle EXCEPT !.pc = "open"]
    /\ KeyIdle
    /\ DetIdle
    /\ BatchIdle

\* split_video_into_coaches, lines 31-43: open the capture, read the
\* properties, compute the duration and enter _detect_coach_boundaries
\* (lines 83-91). handles counts the captures of this call that are open:
\* the division of line 38 raises with the capture of line 31 open.
SplitOpen ==
    /\ sp.pc = "open"
    /\ LET fps == IntFps(video.rateNum)
       IN  IF ~video.openable
           THEN sp' = [sp EXCEPT !.pc = "raised", !.error = "ValueError"]
           ELSE IF fps = 0
           THEN sp' = [sp EXCEPT !.pc = "raised", !.fps = fps,
                                 !.handles = 1,
                                 !.error = "ZeroDivisionError"]
           ELSE LET n == NumCoaches(video.total_frames, fps)
                IN  sp' = [sp EXCEPT !.pc = "bounds", !.fps = fps,
                                     !.handles = 1,
                                     !.num_coaches = n,
                                     !.segment_length =
                                         SegmentLength(video.total_frames, n),
                                     !.i = 0]
    /\ UNCHANGED <<video, keyVars, detVars, batchVars>>

\* one iteration of `for i in range(num_coaches)`, lines 93-97
BoundaryStep ==
    /\ sp.pc = "bounds"
    /\ sp.i < sp.num_coaches
    /\ sp' = [sp EXCEPT
                !.boundaries = Append(@, Boundary(sp.i, sp.segment_length,
                                                  video.total_frames)),
                !.i = @ + 1]
    /\ UNCHANGED <<video, keyVars, detVars, batchVars>>

\* lines 99-102: the loop is over, the list is returned to line 43
BoundariesReturn ==
    /\ sp.pc = "bounds"
    /\ sp.i = sp.num_coaches
    /\ sp' = [sp EXCEPT !.pc = "clips", !.have_boundaries = TRUE, !.i = 1]
    /\ UNCHANGED <<video, keyVars, detVars, batchVars>>

\* one iteration of the clip loop, lines 49-66: _extract_coach_clip either
\* returns the path of the written clip or raises ValueError (lines 126,
\* 139, 162). Its own capture is released on each of these paths (lines
\* 138, 157); its exception leaves split_video_into_coaches at line 55,
\* before the release of line 68.
ClipStep ==
    /\ sp.pc = "clips"
    /\ sp.i <= Len(sp.boundaries)
    /\ \E written \in BOOLEAN :
         IF written
         THEN sp' = [sp EXCEPT
                       !.coach_clips = Append(@,
                           [index       |-> sp.i,
                            type        |-> sp.boundaries[sp.i].coach_type,
                            start_frame |-> sp.boundaries[sp.i].start_frame,
                            end_frame   |-> sp.boundaries[sp.i].end_frame]),
                       !.i = @ + 1]
         ELSE sp' = [sp EXCEPT !.pc = "raised", !.error = "ValueError"]
    /\ UNCHANGED <<video, keyVars, detVars, batchVars>>

\* lines 68-69: cap.release() and return coach_clips
SplitReturn ==
    /\ sp.pc = "clips"
    /\ sp.i > Len(sp.boundaries)
    /\ sp' = [sp EXCEPT !.pc = "done", !.handles = @ - 1]
    /\ UNCHANGED <<video, keyVars, detVars, batchVars>>

NextSeg ==
    \/ SplitOpen
    \/ BoundaryStep
    \/ BoundariesReturn
    \/ ClipStep
    \/ SplitReturn

SpecSeg == InitSeg /\ [][NextSeg]_vars

----------------------------------------------------------------------------
(* Specification of extract_key_frames *)

InitKey ==
    /\ clip \in Clips \cup ScenarioClips
    /\ \E th \in Thresholds, t \in TargetFrames : kf = KfCalled(th, t)
    /\ SegIdle
    /\ DetIdle
    /\ BatchIdle

ExtractOpen ==
    /\ kf.pc = "open"
    /\ kf' = KfOpen(kf, clip)
    /\ UNCHANGED <<clip, segVars, detVars, batchVars>>

ExtractRead ==
    /\ kf.pc = "loop"
    /\ kf' = KfIter(kf, clip)
    /\ UNCHANGED <<clip, segVars, detVars, batchVars>>

ExtractReturn ==
    /\ kf.pc = "release"
    /\ kf' = KfFinish(kf, clip)
    /\ UNCHANGED <<clip, segVars, detVars, batchVars>>

NextKey ==
    \/ ExtractOpen
    \/ ExtractRead
    \/ ExtractReturn

SpecKey == InitKey /\ [][NextKey]_vars

----------------------------------------------------------------------------
(* Specification of detect_components *)

InitDet ==
    /\ dframes \in SeqsUpTo(DetectorFrames, MaxKeyframes)
    /\ det = DetCalled
    /\ SegIdle
    /\ KeyIdle
    /\ BatchIdle

\* one keyframe is classified and annotated
DetectFrame ==
    /\ det.pc = "loop"
    /\ det.i < Len(dframes)
    /\ det' = DetIter(det, dframes)
    /\ UNCHANGED <<dframes, segVars, keyVars, batchVars>>

\* return components
DetectReturn ==
    /\ det.pc = "loop"
    /\ det.i >= Len(dframes)
    /\ det' = DetIter(det, dframes)
    /\ UNCHANGED <<dframes, segVars, keyVars, batchVars>>

\* main.py line 101 for the next coach: the same ComponentDetector is
\* called again, with the keyframes of that coach
DetectAgain ==
    /\ det.pc \in {"done", "raised"}
    /\ det.calls < MaxCalls
    /\ dframes' \in NextCoachFrames
    /\ det' = [pc |-> "loop", i |-> 0,
               components |-> FreshAccumulator(det.components),
               calls |-> det.calls + 1]
    /\ UNCHANGED <<segVars, keyVars, batchVars>>

NextDet ==
    \/ DetectFrame
    \/ DetectReturn
    \/ DetectAgain

SpecDet == InitDet /\ [][NextDet]_vars

----------------------------------------------------------------------------
(* Specification of process_all_videos *)

InitBatch ==
    /\ batch \in Batches
    /\ run = [RunIdle EXCEPT !.pc = "start"]
    /\ SegIdle
    /\ KeyIdle
    /\ DetIdle

\* lines 44-50: without video files {} is returned at once
StartBatch ==
    /\ run.pc = "start"
    /\ run' = IF Len(batch) = 0
              THEN [run EXCEPT !.pc = "done"]
              ELSE [run EXCEPT !.pc = "video", !.v = 1]
    /\ UNCHANGED <<batch, segVars, keyVars, detVars>>

\* lines 52-55 and 69-79: process_single_video is called for video v and
\* splits it into coaches; an exception of the split is caught at line 57
BeginVideo ==
    /\ run.pc = "video"
    /\ \E meta \in {StdVideo, UnopenableVideo, SlowVideo},
          fail_at \in 0..NumCoaches(StdVideo.total_frames,
                                    IntFps(StdVideo.rateNum)) :
         LET fault  == IF meta # StdVideo \/ fail_at # 0 THEN 1 ELSE 0
             logged == [run EXCEPT !.log = Append(@, <<"video", run.v>>),
                                   !.faults = @ + fault]
             split  == SplitVideoIntoCoaches(meta, fail_at)
         IN  /\ run.faults + fault <= MaxFaults
             /\ meta # StdVideo => fail_at = 0
             /\ run' = IF split.raised
                       THEN VideoRaised(logged, Len(batch))
                       ELSE [logged EXCEPT
                               !.pc = "coaches", !.i = 1,
                               !.coach_clips = split.coach_clips,
                               !.results =
                                  [train_number |-> batch[run.v].stem,
                                   total_coaches |-> Len(split.coach_clips),
                                   coaches |-> <<>>]]
    /\ UNCHANGED <<batch, segVars, keyVars, detVars>>

\* one iteration of the coach loop, lines 82-117. An exception of
\* extract_key_frames, detect_components or save_coach_data is not handled
\* in process_single_video: it reaches the handler of line 57.
ProcessCoach ==
    /\ run.pc = "coaches"
    /\ run.i <= Len(run.coach_clips)
    /\ \E kind \in CoachKinds :
         LET fault  == IF kind = "std" THEN 0 ELSE 1
             logged == [run EXCEPT
                          !.log = Append(@, <<"coach", run.v, run.i,
                                              Len(run.coach_clips)>>),
                          !.faults = @ + fault]
             ex     == ExtractKeyFrames(ClipOfKind(kind), DefaultThreshold,
                                        DefaultTargetFrames)
             dc     == DetectComponents(ex.frames)
             stem   == batch[run.v].stem
         IN  /\ run.faults + fault <= MaxFaults
             /\ run' =
                  IF kind = "missing"
                  THEN [logged EXCEPT
                          !.log = Append(@, <<"missing", run.v, run.i>>),
                          !.i = @ + 1]
                  ELSE IF ex.pc = "raised" \/ dc.pc = "raised"
                          \/ kind = "save_fails"
                  THEN VideoRaised(logged, Len(batch))
                  ELSE [logged EXCEPT
                          !.log = Append(@, <<"saved", run.v, run.i>>),
                          !.saved = @ \cup {<<stem, run.i>>},
                          !.results.coaches =
                              Append(@, CoachData(CoachNumber(run.i, @),
                                                  run.coach_clips[run.i],
                                                  ex.frames, dc.components)),
                          !.i = @ + 1]
    /\ UNCHANGED <<batch, segVars, keyVars, detVars>>

\* line 119 and line 56: the results of video v are returned and stored
\* under the stem of its file name
FinishVideo ==
    /\ run.pc = "coaches"
    /\ run.i > Len(run.coach_clips)
    /\ run' = ToVideo([run EXCEPT
                         !.all_results =
                             DictSet(@, batch[run.v].stem, run.results)],
                      run.v + 1, Len(batch))
    /\ UNCHANGED <<batch, segVars, keyVars, detVars>>

\* lines 61-64: the master report is generated from all_results
GenerateReport ==
    /\ run.pc = "report"
    /\ run' = [run EXCEPT !.pc = "done", !.report = <<run.all_results>>]
    /\ UNCHANGED <<batch, segVars, keyVars, detVars>>

NextBatch ==
    \/ StartBatch
    \/ BeginVideo
    \/ ProcessCoach
    \/ FinishVideo
    \/ GenerateReport

SpecBatch == InitBatch /\ [][NextBatch]_vars

----------------------------------------------------------------------------
(* Claims about the coach segmentation, checked under SpecSeg *)

\* the segments _detect_coach_boundaries has returned
Segments == sp.boundaries

\* clamp(x, 6, 12)
Clamp6To12(x) == IF x < 6 THEN 6 ELSE IF x > 12 THEN 12 ELSE x

\* C1 (as claimed): the last returned segment ends at total_frame_count, so
\* the segments together cover every frame index in [0, total_frame_count).
C1_LastSegmentEndsAtTotal ==
    sp.have_boundaries =>
        /\ Len(Segments) >= 1
        /\ Segments[Len(Segments)].end_frame = video.total_frames

\* C2: the returned segments are ordered, contiguous and non-overlapping:
\* the first starts at 0, start <= end for every segment, and every segment
\* ends where the next one starts.
C2_SegmentsContiguous ==
    sp.have_boundaries =>
        /\ Len(Segments) >= 1
        /\ Segments[1].start_frame = 0
        /\ \A k \in 1..Len(Segments) :
               Segments[k].start_frame <= Segments[k].end_frame
        /\ \A k \in 1..(Len(Segments) - 1) :
               Segments[k].end_frame = Segments[k + 1].start_frame

\* a video whose segments are non-empty and leave a remainder
C2_Witness ==
    /\ sp.have_boundaries
    /\ sp.segment_length > 1
    /\ video.total_frames % Len(Segments) # 0

C4_EngineFirstAndScenarioA ==
    sp.have_boundaries =>
        /\ Len(Segments) >= 1
        /\ \A k \in 1..Len(Segments) :
               Segments[k].coach_type = "engine" <=> k = 1
        /\ \A k \in 1..Len(Segments) :
               Segments[k].coach_type \in {"engine", "wagon"}
        /\ (video.total_frames = 300 /\ video.rateNum = 30 * RateDen) =>
               /\ Len(Segments) = 6
               /\ \A k \in 1..6 :
                      /\ Segments[k].start_frame = 50 * (k - 1)
                      /\ Segments[k].end_frame = 50 * k

\* the 300-frame, 30 fps stream has been segmented
C4_Witness ==
    /\ sp.have_boundaries
    /\ video.total_frames = 300
    /\ video.rateNum = 30 * RateDen

\* split_video_into_coaches has been left, by return or by an exception
SplitLeft == sp.pc \in {"done", "raised"}

\* C13 (as claimed): every capture opened by split_video_into_coaches is
\* released before the operation is left, on every exit path: normal
\* completion and an error raised while the capture is open.
C13_HandlesReleasedOnEveryExit == SplitLeft => sp.handles = 0

\* C18 (as claimed): the segmenter has no error path: for every video that
\* opens with total_frame_count >= 0 and frame_rate > 0, fractional frame
\* rates and a frame count of 0 included, computing the coach boundaries
\* completes and returns a segment list without raising.
C18_SegmenterNeverRaises ==
    (video.openable /\ video.total_frames >= 0 /\ video.rateNum > 0) =>
        /\ sp.pc = "raised" => sp.have_boundaries
        /\ SplitLeft => Len(Segments) >= 1

\* C30: every returned segment has exactly total_frame_count // num_coaches
\* frames: all segments have the same length, the bound
\* min((i+1)*segment_length, total_frames) never takes effect, and for
\* total_frame_count < num_coaches every segment is the empty range [0, 0).
C30_SegmentsOfEqualLength ==
    sp.have_boundaries =>
        LET n   == Len(Segments)
            len == video.total_frames \div n
        IN  /\ n >= 1
            /\ \A k \in 1..n :
                   /\ Segments[k].end_frame - Segments[k].start_frame = len
                   /\ Segments[k].end_frame = k * len
                   /\ k * len <= video.total_frames
            /\ video.total_frames < n =>
                   \A k \in 1..n :
                       /\ Segments[k].start_frame = 0
                       /\ Segments[k].end_frame = 0

\* a video with fewer frames than coaches, but not empty
C30_Witness ==
    /\ sp.have_boundaries
    /\ video.total_frames >= 1
    /\ video.total_frames < Len(Segments)

----------------------------------------------------------------------------
(* Claims about the keyframe selection, checked under SpecKey *)

\* the list extract_key_frames has returned
KeyframesReturned == kf.pc = "done"

\* C5 (as claimed): for every target_count >= 1, every threshold and every
\* frame sequence, the returned keyframe list has length <= target_count.
C5_LengthAtMostTarget ==
    (KeyframesReturned /\ kf.target_frames >= 1) =>
        Len(kf.frames) <= kf.target_frames

\* C6: whenever the clip holds at least one readable frame, the returned
\* keyframe list is non-empty, for every threshold and target_count >= 1.
C6_NonEmptyForReadableClip ==
    (KeyframesReturned /\ clip.openable /\ Len(clip.frames) >= 1) =>
        Len(kf.frames) >= 1

\* a clip of several frames none of which is selected after the first
C6_Witness ==
    /\ KeyframesReturned
    /\ clip.openable
    /\ Len(clip.frames) >= 2
    /\ kf.similarity_threshold = 0
    /\ Len(kf.frames) = 1

\* the record process_single_video builds (main.py lines 109-116) for a
\* coach whose extraction returned frames
CoachRecordFor(frames) ==
    CoachData(1, [type |-> "wagon"], frames,
              DetectComponents(frames).components)

\* the clip with the same decodable frames and a header that states them:
\* its reads succeed up to the stated end
ReadToEnd(c) == [c EXCEPT !.header_doubled = FALSE]

\* cap.read() failed (line 54) before the frame count the header states
ReadFailedPartway ==
    /\ clip.openable
    /\ Len(clip.frames) >= 1
    /\ Len(clip.frames) < HeaderFrameCount(clip)
    /\ kf.frame_count = Len(clip.frames)

\* C11 (as claimed): when a frame read fails partway through a coach's clip,
\* the keyframes gathered so far are retained in the result and the coach is
\* marked incomplete: its result differs from the result of the clip with
\* the same frames that was read to the end.
C11_TruncatedClipMarkedIncomplete ==
    (KeyframesReturned /\ ReadFailedPartway) =>
        /\ Len(kf.frames) >= 1
        /\ CoachRecordFor(kf.frames) #
               CoachRecordFor(ExtractKeyFrames(ReadToEnd(clip),
                                               kf.similarity_threshold,
                                               kf.target_frames).frames)

\* extract_key_frames has been left, by return or by an exception
ExtractLeft == kf.pc \in {"done", "raised"}

\* C14 (as claimed): if the coach's source cannot be opened, or opens but
\* its very first read fails, extract_key_frames aborts the coach with an
\* error instead of returning a keyframe list.
C14_UnreadableSourceAborts ==
    (ExtractLeft /\ (~clip.openable \/ ~ReadOk(clip, 1))) =>
        /\ kf.pc = "raised"
        /\ kf.error # "none"

\* the frame at position p (from 0) of the clip scores below the threshold
\* against the frame at position ref
Diverges(ref, p) ==
    CalculateSimilarity(clip, Gray(clip.frames[ref + 1]),
                        Gray(clip.frames[p + 1])) < kf.similarity_threshold

\* the positions (from 0) of the sampled frames of the clip
SampledPositions ==
    {p \in 0..(Len(clip.frames) - 1) : p % kf.sample_interval = 0}

\* the latest of the positions 0, 30 and 60 before position p
ScenarioBReference(p) == IF p > 60 THEN 60 ELSE IF p > 30 THEN 30 ELSE 0

\* Scenario B: sample_interval = 3, target_frames = 8, the sampled frames
\* at positions 30 and 60 diverge from the frames at 0 and 30, and every
\* other sampled frame is near-identical to the latest of 0, 30, 60 before it
ScenarioB ==
    /\ clip.openable
    /\ Len(clip.frames) > 60
    /\ kf.sample_interval = 3
    /\ kf.target_frames = 8
    /\ Diverges(0, 30)
    /\ Diverges(30, 60)
    /\ \A p \in SampledPositions \ {0, 30, 60} :
           ~Diverges(ScenarioBReference(p), p)

\* C16: in Scenario B extract_key_frames selects exactly 3 keyframes, the
\* frames at positions 0, 30 and 60, and stops because the clip is
\* exhausted, before reaching target_frames = 8.
C16_ScenarioBSelectsThree ==
    (KeyframesReturned /\ ScenarioB) =>
        /\ Len(kf.frames) = 3
        /\ kf.added_at = <<0, 30, 60>>
        /\ kf.frames = <<clip.frames[1], clip.frames[31], clip.frames[61]>>
        /\ kf.frame_count = Len(clip.frames)
        /\ Len(kf.frames) < kf.target_frames

\* Scenario B on a clip of 80 frames has returned
C16_Witness ==
    /\ KeyframesReturned
    /\ ScenarioB
    /\ Len(clip.frames) = 80
    /\ kf.similarity_threshold = DefaultThreshold

\* a fully static segment: every sampled frame after the first scores at
\* least the threshold against the first frame
StaticSegment ==
    /\ clip.openable
    /\ Len(clip.frames) >= 1
    /\ \A p \in SampledPositions \ {0} : ~Diverges(0, p)

\* C17: for a fully static coach segment, a segment of a single frame
\* included, extract_key_frames returns a keyframe list of exactly length
\* 1 holding the first frame of the segment.
C17_StaticSegmentGivesFirstFrame ==
    (KeyframesReturned /\ StaticSegment) =>
        /\ Len(kf.frames) = 1
        /\ kf.frames[1] = clip.frames[1]
        /\ kf.added_at = <<0>>

\* a static segment of several frames under the default threshold
C17_Witness ==
    /\ KeyframesReturned
    /\ StaticSegment
    /\ Len(clip.frames) >= 3
    /\ kf.similarity_threshold = DefaultThreshold
    /\ kf.sample_interval = 1

\* the capture is open or was: sample_interval is set
ExtractStarted == kf.pc \in {"loop", "release", "done"}

\* the sampled positions strictly between positions a and b
SampledBetween(a, b) == {p \in SampledPositions : a < p /\ p < b}

SimilarFrameNext ==
    /\ kf.pc = "loop"
    /\ clip.openable
    /\ kf.frame_count + 1 <= Len(clip.frames)
    /\ kf.frame_count % kf.sample_interval = 0
    /\ kf.reference_frame # <<>>
    /\ CalculateSimilarity(clip, kf.reference_frame[1],
                           Gray(clip.frames[kf.frame_count + 1]))
           >= kf.similarity_threshold

\* C21: a sampled frame whose similarity to the current reference is at
\* least the threshold (a frame identical to the reference scores 1.0)
\* never triggers a new keyframe: processing it leaves the keyframe list
\* and the reference unchanged.
C21_SimilarFrameChangesNothing ==
    [][SimilarFrameNext =>
           /\ kf'.frames = kf.frames
           /\ kf'.added_at = kf.added_at
           /\ kf'.reference_frame = kf.reference_frame
           /\ kf'.frame_count = kf.frame_count + 1]_vars

\* a frame identical to the reference was processed under the default
\* threshold and the loop goes on with one keyframe
C21_Witness ==
    /\ kf.pc = "loop"
    /\ kf.similarity_threshold = DefaultThreshold
    /\ kf.sample_interval = 1
    /\ kf.frame_count = 2
    /\ clip.frames[2] = clip.frames[1]
    /\ Len(kf.frames) = 1

\* C22 (as claimed): extract_key_frames stops as soon as target_count
\* keyframes are collected or the input is exhausted: for every
\* target_count >= 1, whenever the loop is about to read another frame fewer
\* than target_count keyframes have been appended, and the number of frames
\* read never exceeds the frames of the finite stream.
C22_StopsAtTargetOrExhaustion ==
    (ExtractStarted /\ kf.target_frames >= 1) =>
        /\ kf.pc = "loop" => Len(kf.frames) < kf.target_frames
        /\ kf.frame_count <= Len(clip.frames)

\* C23: with sample_interval = max(1, total_frames // (target_count * 3)),
\* every keyframe of the main selection loop was read at a frame index that
\* is a multiple of sample_interval, and the keyframes are in strictly
\* increasing source-index order, no frame being selected twice.
C23_KeyframesAtSampledIndices ==
    ExtractStarted =>
        LET total == IF clip.header_doubled THEN 2 * Len(clip.frames)
                     ELSE Len(clip.frames)
            q     == total \div (kf.target_frames * 3)
        IN  /\ kf.sample_interval = IF q < 1 THEN 1 ELSE q
            /\ Len(kf.added_at) = Len(kf.frames)
            /\ \A k \in 1..Len(kf.frames) :
                   /\ kf.added_at[k] % kf.sample_interval = 0
                   /\ kf.added_at[k] \in 0..(Len(clip.frames) - 1)
                   /\ kf.frames[k] = clip.frames[kf.added_at[k] + 1]
            /\ \A j, k \in 1..Len(kf.frames) :
                   j < k => kf.added_at[j] < kf.added_at[k]

\* several keyframes were returned under a sample_interval above 1
C23_Witness ==
    /\ KeyframesReturned
    /\ kf.sample_interval >= 2
    /\ Len(kf.frames) >= 2
    /\ kf.added_at[2] > kf.sample_interval

\* the loop is about to read a sampled frame whose comparison with the
\* current reference raises inside _calculate_similarity
FailingComparisonNext ==
    /\ kf.pc = "loop"
    /\ clip.openable
    /\ clip.ssim_fails
    /\ kf.frame_count + 1 <= Len(clip.frames)
    /\ kf.frame_count % kf.sample_interval = 0
    /\ kf.reference_frame # <<>>

\* C24: a failure inside the similarity comparison is never fatal: the
\* score is 0 and, for any threshold > 0, the candidate frame is treated as
\* maximally different: it is selected as a keyframe and made the new
\* reference, and extract_key_frames goes on without raising.
C24_ComparisonFailureScoresZero ==
    [][(FailingComparisonNext /\ kf.similarity_threshold > 0) =>
           LET frame == clip.frames[kf.frame_count + 1]
           IN  /\ kf'.frames = Append(kf.frames, frame)
               /\ kf'.added_at = Append(kf.added_at, kf.frame_count)
               /\ kf'.reference_frame = <<frame.img>>
               /\ kf'.pc \in {"loop", "release"}
               /\ kf'.error = "none"]_vars

\* a frame with the content of the reference was selected because its
\* comparison failed
C24_Witness ==
    /\ KeyframesReturned
    /\ clip.ssim_fails
    /\ kf.similarity_threshold = DefaultThreshold
    /\ Len(kf.frames) >= 2
    /\ kf.frames[2] = kf.frames[1]

----------------------------------------------------------------------------
(* Claims about the component detection, checked under SpecDet *)

\* detect_components has returned det.components
ComponentsReturned == det.pc = "done"

\* the sum of f[1] .. f[n]
RECURSIVE SumTo(_, _)
SumTo(f, n) == IF n = 0 THEN 0 ELSE SumTo(f, n - 1) + f[n]

\* the concatenation of f[1] .. f[n]
RECURSIVE ConcatTo(_, _)
ConcatTo(f, n) == IF n = 0 THEN <<>> ELSE ConcatTo(f, n - 1) \o f[n]

\* the number of engine-sized contours of a frame
EngineContours(frame) ==
    Cardinality({j \in 1..Len(frame.contours) :
                    /\ frame.contours[j].area > 15000
                    /\ 2 * frame.contours[j].w > frame.contours[j].h})

\* the number of wagon-sized contours of a frame
WagonContours(frame) ==
    Cardinality({j \in 1..Len(frame.contours) :
                    /\ frame.contours[j].area > 5000
                    /\ frame.contours[j].area < 15000
                    /\ 10 * frame.contours[j].w > 3 * frame.contours[j].h})

\* C7: the returned doors_open + doors_closed equals the number of
\* door_boxes entries over the annotations of all the keyframes passed in.
C7_DoorCountersSumToObservations ==
    ComponentsReturned =>
        /\ Len(det.components.annotations) = Len(dframes)
        /\ det.components.doors_open + det.components.doors_closed =
               SumTo([k \in 1..Len(dframes) |->
                         Len(det.components.annotations[k].doors.door_boxes)],
                     Len(dframes))

\* two keyframes with an open and a closed door among them
C7_Witness ==
    /\ ComponentsReturned
    /\ Len(dframes) = 2
    /\ det.components.doors_open >= 1
    /\ det.components.doors_closed >= 1

\* C8: the returned engines and wagons lists are the concatenation, in
\* keyframe order, of the per-frame detections; their lengths are the sums
\* of the per-frame detection counts, a detection repeated in several
\* keyframes being counted once per keyframe.
C8_ListsAreConcatenations ==
    ComponentsReturned =>
        LET anns == det.components.annotations
            n    == Len(dframes)
        IN  /\ Len(anns) = n
            /\ det.components.engines =
                   ConcatTo([k \in 1..n |-> anns[k].engines], n)
            /\ det.components.wagons =
                   ConcatTo([k \in 1..n |-> anns[k].wagons], n)
            /\ Len(det.components.engines) =
                   SumTo([k \in 1..n |-> EngineContours(dframes[k])], n)
            /\ Len(det.components.wagons) =
                   SumTo([k \in 1..n |-> WagonContours(dframes[k])], n)

\* the same engine and the same wagon are detected in both keyframes
C8_Witness ==
    /\ ComponentsReturned
    /\ Len(dframes) = 2
    /\ \E b \in {det.components.engines[k] :
                    k \in 1..Len(det.components.engines)} :
          /\ \E k \in 1..Len(det.components.annotations[1].engines) :
                det.components.annotations[1].engines[k] = b
          /\ \E k \in 1..Len(det.components.annotations[2].engines) :
                det.components.annotations[2].engines[k] = b
    /\ \E b \in {det.components.wagons[k] :
                    k \in 1..Len(det.components.wagons)} :
          /\ \E k \in 1..Len(det.components.annotations[1].wagons) :
                det.components.annotations[1].wagons[k] = b
          /\ \E k \in 1..Len(det.components.annotations[2].wagons) :
                det.components.annotations[2].wagons[k] = b

\* C15: whenever detect_components returns, it returns exactly one
\* annotation per keyframe, in the same order: len(annotations) equals
\* len(frames), and the annotation at position i (from 0) has frame_index i
\* and holds the detections and the annotated copy of frames[i].
C15_AnnotationsAlignedWithFrames ==
    ComponentsReturned =>
        LET anns == det.components.annotations
        IN  /\ Len(anns) = Len(dframes)
            /\ \A k \in 1..Len(anns) :
                   /\ anns[k].frame_index = k - 1
                   /\ anns[k].annotated_frame.frame = dframes[k]
                   /\ anns[k].doors = DetectDoors(dframes[k])
                   /\ anns[k].engines = DetectEngines(dframes[k])
                   /\ anns[k].wagons = DetectWagons(dframes[k])
                   /\ Len(anns[k].annotated_frame.drawn) =
                          Len(anns[k].doors.door_boxes)
                              + Len(anns[k].engines) + Len(anns[k].wagons)

\* two keyframes with different contents, one of them without detections
C15_Witness ==
    /\ ComponentsReturned
    /\ Len(dframes) = 2
    /\ dframes[1] # dframes[2]
    /\ dframes[1].contours = <<>>
    /\ Len(det.components.annotations[2].annotated_frame.drawn) >= 2

\* the contours of a frame whose enclosed area is in the door band and
\* whose rectangle has a door's proportions, in contour order
DoorCandidatesByArea(frame) ==
    SelectSeq(frame.contours,
              LAMBDA c : /\ c.area > 1000
                         /\ c.area < 10000
                         /\ 10 * c.w > 3 * c.h
                         /\ c.w < 3 * c.h)

\* the same with the area of the bounding rectangle
DoorCandidatesByBox(frame) ==
    SelectSeq(frame.contours,
              LAMBDA c : /\ c.w * c.h > 1000
                         /\ c.w * c.h < 10000
                         /\ 10 * c.w > 3 * c.h
                         /\ c.w < 3 * c.h)

\* doors holds exactly one observation {bbox, status, area} per candidate,
\* and each observation is counted in exactly one of open and closed
DoorsRecordExactly(doors, cands) ==
    /\ Len(doors.door_boxes) = Len(cands)
    /\ \A n \in 1..Len(doors.door_boxes) :
           /\ doors.door_boxes[n].bbox =
                  <<cands[n].x, cands[n].y, cands[n].w, cands[n].h>>
           /\ doors.door_boxes[n].area = cands[n].area
           /\ doors.door_boxes[n].status \in {"open", "closed"}
    /\ doors.open =
           Cardinality({n \in 1..Len(doors.door_boxes) :
                           doors.door_boxes[n].status = "open"})
    /\ doors.closed =
           Cardinality({n \in 1..Len(doors.door_boxes) :
                           doors.door_boxes[n].status = "closed"})

\* C25 (as claimed): detect_doors records a contour as a door observation
\* exactly when its bounding-box area lies strictly between 1000 and 10000
\* and its width satisfies width > 0.3*height and width < 3*height; each
\* such contour yields exactly one observation and increments exactly one
\* of the open/closed counters by 1.
C25_DoorsByBoundingBoxArea ==
    ComponentsReturned =>
        \A k \in 1..Len(det.components.annotations) :
            DoorsRecordExactly(det.components.annotations[k].doors,
                               DoorCandidatesByBox(dframes[k]))

\* C25 (amended): detect_doors records a contour as a door observation
\* exactly when the area the contour encloses (cv2.contourArea) lies
\* strictly between 1000 and 10000 and its bounding-box width satisfies
\* width > 0.3*height and width < 3*height; each such contour yields exactly
\* one observation and increments exactly one of the open/closed counters
\* by 1.
C25_DoorsByContourArea ==
    ComponentsReturned =>
        \A k \in 1..Len(det.components.annotations) :
            DoorsRecordExactly(det.components.annotations[k].doors,
                               DoorCandidatesByArea(dframes[k]))

\* a frame with a door and with a contour whose rectangle is door-sized
\* while its enclosed area is not: only the first is recorded
C25_Witness ==
    /\ ComponentsReturned
    /\ Len(dframes) >= 1
    /\ Len(DoorCandidatesByBox(dframes[1])) = 2
    /\ Len(det.components.annotations[1].doors.door_boxes) = 1
    /\ det.components.doors_open = 1

\* C26: _classify_door_status returns open exactly when the crop's
\* intensity variance is strictly greater than 1000 and closed otherwise: a
\* variance of exactly 1000, a uniform (zero-variance) crop and an empty
\* crop all classify closed.
C26_OpenIffVarianceAbove1000 ==
    /\ ClassifyDoorStatus(EmptyCrop) = "closed"
    /\ ComponentsReturned =>
           \A k \in 1..Len(det.components.annotations) :
               LET boxes == det.components.annotations[k].doors.door_boxes
                   cands == DoorCandidatesByArea(dframes[k])
               IN  /\ Len(boxes) = Len(cands)
                   /\ \A n \in 1..Len(boxes) :
                          /\ boxes[n].status = "open" <=>
                                 cands[n].variance > 1000
                          /\ boxes[n].status = "closed" <=>
                                 cands[n].variance <= 1000

\* doors of variance 0, 1000 and 1500 were classified
C26_Witness ==
    /\ ComponentsReturned
    /\ det.components.doors_open = 1
    /\ det.components.doors_closed = 2
    /\ \E j, k \in 1..Len(dframes) :
          /\ \E n \in 1..Len(DoorCandidatesByArea(dframes[j])) :
                 DoorCandidatesByArea(dframes[j])[n].variance = 0
          /\ \E n \in 1..Len(DoorCandidatesByArea(dframes[k])) :
                 DoorCandidatesByArea(dframes[k])[n].variance = 1000

\* detect_components was left by an exception raised on keyframe det.i
ComponentsRaised == det.pc = "raised"

\* C27 (as claimed): when classifying keyframe k fails with an error,
\* detect_components aborts the remaining keyframes but what the caller
\* receives holds the partial results accumulated from keyframes 0..k-1:
\* door counters, engine and wagon lists, annotations.
C27_PartialResultsPreserved ==
    ComponentsRaised =>
        det.components =
            DetectComponents(SubSeq(dframes, 1, det.i)).components

\* C28: each call of detect_components builds a fresh accumulator, so what
\* it returns depends only on the keyframes of that call: it equals the
\* result of the first call of a new detector on the same keyframes, with
\* counters and lists that hold the detections of these keyframes alone;
\* and the keyframes are not modified while they are processed (each
\* annotation is drawn on a copy).
C28_FreshAccumulatorPerCall ==
    /\ [](ComponentsReturned =>
             /\ det.components = DetectComponents(dframes).components
             /\ det.components.doors_open + det.components.doors_closed =
                    SumTo([k \in 1..Len(dframes) |->
                              Len(DoorCandidatesByArea(dframes[k]))],
                          Len(dframes))
             /\ Len(det.components.annotations) = Len(dframes))
    /\ [][det.pc = "loop" => dframes' = dframes]_vars

\* a further call on a keyframe without contours has returned
C28_Witness ==
    /\ ComponentsReturned
    /\ det.calls >= 1
    /\ dframes = <<Frame(1, <<>>)>>
    /\ det.components.doors_open = 0
    /\ det.components.engines = <<>>

----------------------------------------------------------------------------
(* Claims about the orchestration, checked under SpecBatch *)

\* process_all_videos has returned
BatchDone == run.pc = "done"

InLog(entry) == \E k \in 1..Len(run.log) : run.log[k] = entry

\* process_single_video was called for video j of the batch
VideoProcessed(j) == InLog(<<"video", j>>)

\* the call for video j raised
VideoFailed(j) == InLog(<<"error", j>>)

\* C9: a video whose processing raises is fatal only for that video: it is
\* left out of the results, every other video of the batch is still
\* processed, and the master report is generated afterwards.
C9_VideoFailureIsolated ==
    (BatchDone /\ Len(batch) > 0) =>
        /\ \A j \in 1..Len(batch) : VideoProcessed(j)
        /\ DOMAIN run.all_results =
               {batch[j].stem : j \in {k \in 1..Len(batch) : ~VideoFailed(k)}}
        /\ \A j \in 1..Len(batch) :
               (~VideoFailed(j) /\ \A k \in (j + 1)..Len(batch) :
                                      batch[k].stem # batch[j].stem) =>
                   run.all_results[batch[j].stem].total_coaches > 0
        /\ run.report = <<run.all_results>>

\* a video raised, a later video of another name is in the results, and
\* the report was generated
C9_Witness ==
    /\ BatchDone
    /\ run.report = <<run.all_results>>
    /\ \E j, k \in 1..Len(batch) :
          /\ j < k
          /\ VideoFailed(j)
          /\ ~VideoFailed(k)
          /\ batch[j].stem # batch[k].stem
          /\ batch[j].stem \notin DOMAIN run.all_results
          /\ batch[k].stem \in DOMAIN run.all_results

\* C10 (as claimed): a failure while processing one coach of a video does
\* not abort sibling work: once the coach loop of a video is entered, every
\* coach of the video is processed, and the coaches whose data were saved
\* are in the video's result.
C10_CoachFailureContained ==
    BatchDone =>
        \A j \in 1..Len(batch) :
            \A n \in 1..MaxCoaches :
                InLog(<<"coach", j, 1, n>>) =>
                    /\ \A i \in 1..n : InLog(<<"coach", j, i, n>>)
                    /\ ~VideoFailed(j)
                    /\ (\A k \in (j + 1)..Len(batch) :
                            batch[k].stem # batch[j].stem) =>
                           /\ batch[j].stem \in DOMAIN run.all_results
                           /\ \A i \in 1..n :
                                  InLog(<<"saved", j, i>>) =>
                                      \E c \in 1..Len(run.all_results[
                                                  batch[j].stem].coaches) :
                                          run.all_results[batch[j].stem]
                                              .coaches[c].coach_number = i

\* the coach records of the video being processed: results['coaches']
Coaches == run.results.coaches

\* the clips extract_key_frames is called on at main.py line 96
AnalysedKinds == {"std", "plain", "empty"}

\* what lines 96-101 compute for a clip of each kind: the keyframes and
\* the components detected in them
AnalysedOutcomes ==
    [kind \in AnalysedKinds |->
        LET ex == ExtractKeyFrames(ClipOfKind(kind), DefaultThreshold,
                                   DefaultTargetFrames)
        IN  [frames |-> ex.frames,
             components |-> DetectComponents(ex.frames).components]]

\* the record lines 96-116 build for coach i when its clip is of this kind
CoachRecordOfKind(kind, i) ==
    CoachData(i, run.coach_clips[i], AnalysedOutcomes[kind].frames,
              AnalysedOutcomes[kind].components)

\* doors_open == 0, doors_closed == 0, no engines, no wagons
ZeroDetections(r) ==
    /\ r.doors_open = 0
    /\ r.doors_closed = 0
    /\ r.components.engines = <<>>
    /\ r.components.wagons = <<>>

\* C12: in the result of process_single_video a coach that could not be
\* analyzed is distinguishable from a coach analyzed with zero detections:
\* a coach whose clip is missing has no record while every other processed
\* coach has one, and a record has frame_count = 0 exactly when the clip it
\* was built from yields no frame, so no clip without frames and no clip
\* with frames lead to the same record.
C12_UnanalysedCoachDistinguishable ==
    run.pc = "coaches" =>
        /\ \A i \in 1..(run.i - 1) :
               InLog(<<"missing", run.v, i>>) <=>
                   ~\E c \in 1..Len(Coaches) : Coaches[c].coach_number = i
        /\ \A c \in 1..Len(Coaches) :
               LET r == Coaches[c]
                   producers == {k \in AnalysedKinds :
                                    CoachRecordOfKind(k, r.coach_number) = r}
               IN  /\ producers # {}
                   /\ \A k \in producers :
                          r.frame_count = 0 <=> ClipOfKind(k).frames = <<>>
                   /\ (ZeroDetections(r) /\ r.frame_count > 0) =>
                          r.components.annotations # <<>>

\* a video with a coach whose clip yielded no frame and a coach analyzed
\* with zero detections
C12_Witness ==
    /\ run.pc = "coaches"
    /\ \E c, d \in 1..Len(Coaches) :
          /\ ZeroDetections(Coaches[c])
          /\ Coaches[c].frame_count = 0
          /\ ZeroDetections(Coaches[d])
          /\ Coaches[d].frame_count > 0

\* the coaches of the video being processed that were skipped as missing
\* among the first n
MissingUpTo(n) == {i \in 1..n : InLog(<<"missing", run.v, i>>)}

\* coach_number is strictly increasing along the list
StrictlyIncreasing(coaches) ==
    \A c \in 1..(Len(coaches) - 1) :
        coaches[c].coach_number < coaches[c + 1].coach_number

\* C19: the coach records of a video's result are ordered by coach index:
\* coach_number is strictly increasing along results['coaches'], and each
\* coach_number is the 1-based index of the segment the record was produced
\* from, also when earlier coaches of the video were skipped.
C19_CoachRecordsOrderedByIndex ==
    /\ \A stem \in DOMAIN run.all_results :
           StrictlyIncreasing(run.all_results[stem].coaches)
    /\ run.pc = "coaches" =>
           /\ StrictlyIncreasing(Coaches)
           /\ \A c \in 1..Len(Coaches) :
                  LET n == Coaches[c].coach_number
                  IN  /\ n \in 1..(run.i - 1)
                      /\ run.coach_clips[n].index = n
                      /\ Coaches[c].coach_type = run.coach_clips[n].type
                      /\ InLog(<<"saved", run.v, n>>)
                      /\ n \notin MissingUpTo(n)
                      /\ n = c + Cardinality(MissingUpTo(n))

\* a coach was analyzed after an earlier coach of the video was skipped
C19_Witness ==
    /\ run.pc = "coaches"
    /\ \E c \in 1..Len(Coaches) :
          /\ Coaches[c].coach_number > c
          /\ Coaches[c].coach_type = "wagon"
    /\ InLog(<<"missing", run.v, 1>>)

\* the video files whose process_single_video call returned
VideosReturned ==
    {j \in 1..Len(batch) : VideoProcessed(j) /\ ~VideoFailed(j)}

\* C29 (as claimed): process_all_videos returns exactly one result entry
\* per video file that was processed without error: the number of entries
\* of the returned dictionary equals the number of input files whose
\* process_single_video call returned, also when two files share the same
\* name stem.
C29_OneEntryPerReturnedVideo ==
    (BatchDone /\ Len(batch) > 0) =>
        Cardinality(DOMAIN run.all_results) = Cardinality(VideosReturned)

====
